---- MODULE Spec2Model ----
(***************************************************************************)
(* Model of the in-memory cache layer of the crypto API (src/index.js):    *)
(* getCachedData, handleErrorWithCacheFallback, the route handlers that    *)
(* use them, GET /cache-status, DELETE /cache and the cleanupCache         *)
(* interval timer; and of the market-cap text <-> number conversions.      *)
(*                                                                         *)
(* Time is in milliseconds, as Date.now() gives it.  A JavaScript object   *)
(* is a record holding exactly the fields that are present; the Map        *)
(* `cache` is a function whose DOMAIN is the set of keys present.          *)
(***************************************************************************)
EXTENDS Integers, Sequences, FiniteSets, TLC

\* ---------------------------------------------------------------- constants
CACHE_DURATION == 5 * 60 * 1000

SWEEP_INTERVAL == 10 * 60 * 1000

FALLBACK_MESSAGE == "Serving cached data due to fetch error"

\* ------------------------------------------------------------------- bounds
\* number of producer invocations in one behaviour
MaxFetch == 2

\* the clock runs up to MaxWindows freshness windows ...
MaxWindows == 2

\* ... plus at most MaxMs single milliseconds on top of a whole window; the
\* interval timer's callback runs at most MaxMs ms after it is due
MaxMs == 1

\* a market-cap text given to marketCapTextToNum is made of at most MaxTokens
\* tokens
MaxTokens == 3

\* a number given to marketCapNumToText has at most MaxDigits significant
\* digits, times a power of ten from 10^-4 to 10^(MaxExp - 4)
MaxDigits == 2

MaxExp == 16

\* number of values in a conversion chain: the input and MaxChain - 1
\* conversions applied in turn
MaxChain == 3

\* whole windows the clock may advance where the sweep is followed over
\* two timer periods
MaxSweepWindows == 4

\* the resources requested: one list-shaped, one aggregate
Keys == {"trending-coins", "btc-dominance"}

VARIABLES
    now,        \* Date.now()
    cache,      \* the Map: key -> [data |-> envelope, timestamp |-> ms]
    pending,    \* key -> number of getCachedData calls suspended at line 31
    nextSweep,  \* time at which the interval timer is next due
    fetches,    \* number of producer invocations so far
    lastResp,   \* <<>> or <<r>>: the HTTP response sent by the step just taken,
                \* with what the handler saw (path taken, value returned or thrown
                \* by getCachedData, whether the key had an entry)
    lastSweep,  \* <<>> or <<n>>: cleanedCount of the cleanupCache run just taken
    good,       \* history: key -> envelope returned by the last successful
                \* producer call for the key since the key was last removed
    first,      \* history: key -> "none" | "pending" | "done": where the first
                \* request ever issued for the key is
    recentFetch, \* history: the keys for which a call that invoked the producer
                \* started less than one freshness window ago
    canon       \* the conversion chain: <<>>, or an input text or number
                \* followed by the results of the conversions applied to it

serverVars == <<now, cache, pending, nextSweep, fetches, lastResp, lastSweep, good, first, recentFetch>>

vars == <<now, cache, pending, nextSweep, fetches, lastResp, lastSweep, good, first, recentFetch, canon>>

\* ------------------------------------------------------------ Map helpers
EmptyMap == [k \in {} |-> {}]

MapSet(m, k, v) == [x \in DOMAIN m \cup {k} |-> IF x = k THEN v ELSE m[x]]

MapDelete(m, k) == [x \in DOMAIN m \ {k} |-> m[x]]

\* The key a request-path response is about.  TLC compares the fields of two
\* records in the order in which their names first occur in the module; with
\* `key` named here, responses for different keys are told apart before
\* their payloads, which have different shapes, are compared.
ResponseKey(r) == r.key

\* ---------------------------------------------------------------- producers
\* What the scraped page can be: the request fails in transport (ok = FALSE)
\* or the page is parsed into rows.
ListPages ==
    { [ok |-> FALSE, rows |-> <<>>] } \cup
    { [ok |-> TRUE, rows |-> rs] : rs \in {<<>>, <<"BTC">>, <<"BTC", "ETH">>} }

DominancePages ==
    { [ok |-> FALSE, row |-> <<>>] } \cup
    { [ok |-> TRUE, row |-> rw] : rw \in {<<>>, <<0>>, <<55>>} }

Pages(k) == IF k = "btc-dominance" THEN DominancePages ELSE ListPages

Resolve(v) == [ok |-> TRUE, value |-> v]

Reject(msg) == [ok |-> FALSE, error |-> msg]

\* scrapeTrendingCoins: axios.get rejects, or one record per table row
scrapeTrendingCoins(page) ==
    IF ~page.ok
    THEN Reject("Network Error")
    ELSE Resolve([i \in 1..Len(page.rows) |-> [symbol |-> page.rows[i], trending |-> TRUE]])

\* scrapeBTCDominance: btcDominanceValue stays null when no row matches, and
\* null.toFixed(2) throws
scrapeBTCDominance(page) ==
    IF ~page.ok
    THEN Reject("Network Error")
    ELSE IF page.row = <<>>
         THEN Reject("Cannot read properties of null (reading 'toFixed')")
         ELSE Resolve([btcDominance |-> page.row[1]])

Scraper(k, page) ==
    IF k = "btc-dominance" THEN scrapeBTCDominance(page) ELSE scrapeTrendingCoins(page)

\* ------------------------------------------------------------- cache layer
\* mutant: an entry is served from the cache whatever its age
IsValidCached_AnyAge(c, k, t) ==
    k \in DOMAIN c

\* mutant: the freshness test admits an entry that is exactly one window old
IsValidCached_Lte(c, k, t) ==
    /\ k \in DOMAIN c
    /\ (t - c[k].timestamp) <= CACHE_DURATION

\* getCachedData, line 26: `cached && (Date.now() - cached.timestamp) < CACHE_DURATION`
IsValidCached(c, k, t) ==
    /\ k \in DOMAIN c
    /\ (t - c[k].timestamp) < CACHE_DURATION

\* getCachedData, lines 33-37
ResponseData(freshData, t) ==
    [status |-> "success", timestamp |-> t, data |-> freshData]

\* mutant: an entry that is already there is kept (first writer wins)
GetCachedDataStore_FirstWins(c, k, freshData, t) ==
    LET responseData == ResponseData(freshData, t)
    IN  [cache  |-> IF k \in DOMAIN c THEN c
                    ELSE MapSet(c, k, [data |-> responseData, timestamp |-> t]),
         result |-> responseData]

\* mutant: storing a key drops the entries of the other keys
GetCachedDataStore_ClearsOthers(c, k, freshData, t) ==
    LET responseData == ResponseData(freshData, t)
    IN  [cache  |-> MapSet(EmptyMap, k, [data |-> responseData, timestamp |-> t]),
         result |-> responseData]

\* mutant: the fresh envelope is returned but never stored
GetCachedDataStore_NoSet(c, k, freshData, t) ==
    [cache |-> c, result |-> ResponseData(freshData, t)]

\* mutant: the entry's timestamp is stored in seconds
GetCachedDataStore_Seconds(c, k, freshData, t) ==
    LET responseData == ResponseData(freshData, t)
    IN  [cache  |-> MapSet(c, k, [data |-> responseData, timestamp |-> t \div 1000]),
         result |-> responseData]

\* getCachedData, lines 31-45, once scraperFunction has resolved with freshData
GetCachedDataStore(c, k, freshData, t) ==
    LET responseData == ResponseData(freshData, t)
    IN  [cache  |-> MapSet(c, k, [data |-> responseData, timestamp |-> t]),
         result |-> responseData]

\* mutant: a failed refresh invalidates the entry of the key
GetCachedDataThrow_Evicts(c, k, err) ==
    [cache |-> MapDelete(c, k), thrown |-> err]

\* mutant: a failed refresh is cached like a result
GetCachedDataThrow_StoresError(c, k, err) ==
    [cache |-> MapSet(c, k, [data |-> [status |-> "error", error |-> err], timestamp |-> 0]),
     thrown |-> err]

\* mutant: what is served on a failed refresh is written back to the entry
GetCachedDataThrow_StoresFallback(c, k, err) ==
    [cache |-> IF k \in DOMAIN c
               THEN MapSet(c, k, [data |-> [message |-> FALLBACK_MESSAGE] @@ c[k].data,
                                  timestamp |-> c[k].timestamp])
               ELSE c,
     thrown |-> err]

\* getCachedData, line 31, when scraperFunction rejects: the exception leaves
\* the function before anything is stored
GetCachedDataThrow(c, k, err) ==
    [cache |-> c, thrown |-> err]

\* res.json / res.status(n).json
Json(code, body) == [code |-> code, body |-> body]

\* mutant: the cached envelope is served without the marker message
handleErrorWithCacheFallback_NoMarker(c, k, err, errorMessage, t) ==
    IF k \in DOMAIN c
    THEN Json(200, c[k].data)
    ELSE Json(500, [status |-> "error", message |-> errorMessage,
                    timestamp |-> t, error |-> err])

\* mutant: the error envelope is sent without res.status(500)
handleErrorWithCacheFallback_NoStatus(c, k, err, errorMessage, t) ==
    IF k \in DOMAIN c
    THEN Json(200, [message |-> FALLBACK_MESSAGE] @@ c[k].data)
    ELSE Json(200, [status |-> "error", message |-> errorMessage,
                    timestamp |-> t, error |-> err])

\* mutant: the fallback is offered only for entries the sweeper would keep
handleErrorWithCacheFallback_AgeCheck(c, k, err, errorMessage, t) ==
    IF k \in DOMAIN c /\ t - c[k].timestamp <= CACHE_DURATION * 2
    THEN Json(200, [message |-> FALLBACK_MESSAGE] @@ c[k].data)
    ELSE Json(500, [status |-> "error", message |-> errorMessage,
                    timestamp |-> t, error |-> err])

\* handleErrorWithCacheFallback
handleErrorWithCacheFallback(c, k, err, errorMessage, t) ==
    IF k \in DOMAIN c
    THEN Json(200, [message |-> FALLBACK_MESSAGE] @@ c[k].data)
    ELSE Json(500, [status |-> "error", message |-> errorMessage,
                    timestamp |-> t, error |-> err])

\* console.error("Error:", error.message)
ConsoleError(err) == [kind |-> "console.error", text |-> err]

\* one call of res.json / res.status(n).json, as the client sees it
Sent(json) == [kind |-> "res.json", code |-> json.code, body |-> json.body]

\* mutant: the fallback branch does not return, so the error envelope is
\* sent as well
CatchBlock_NoReturn(c, k, err, errorMessage, t) ==
    IF k \in DOMAIN c
    THEN << ConsoleError(err),
            Sent(Json(200, [message |-> FALLBACK_MESSAGE] @@ c[k].data)),
            Sent(Json(500, [status |-> "error", message |-> errorMessage,
                            timestamp |-> t, error |-> err])) >>
    ELSE << ConsoleError(err),
            Sent(Json(500, [status |-> "error", message |-> errorMessage,
                            timestamp |-> t, error |-> err])) >>

\* mutant: the error is logged only when there is nothing to fall back on
CatchBlock_LogOnlyCold(c, k, err, errorMessage, t) ==
    IF k \in DOMAIN c
    THEN << Sent(handleErrorWithCacheFallback(c, k, err, errorMessage, t)) >>
    ELSE << ConsoleError(err),
            Sent(handleErrorWithCacheFallback(c, k, err, errorMessage, t)) >>

\* The catch block of a route: what handleErrorWithCacheFallback does, in
\* the order it does it (the log line first, then the one response).
CatchBlock(c, k, err, errorMessage, t) ==
    << ConsoleError(err),
       Sent(handleErrorWithCacheFallback(c, k, err, errorMessage, t)) >>

\* the calls of res.json among the effects of a handler
Responses(effects) == SelectSeq(effects, LAMBDA e : e.kind = "res.json")

NotFoundMessage(k) ==
    IF k = "btc-dominance" THEN "No BTC dominance data found"
    ELSE "No trending coins found"

ErrorMessage(k) ==
    IF k = "btc-dominance" THEN "Error fetching BTC dominance data"
    ELSE "Error fetching trending cryptocurrency data"

NotFound(k, t) ==
    Json(404, [status |-> "error", message |-> NotFoundMessage(k), timestamp |-> t])

\* mutant: an empty list is served like any other list
TrendingCoinsRoute_EmptyOk(result, t) ==
    Json(200, [count |-> Len(result.data)] @@ result)

\* GET /trending-coins, the try block after getCachedData returned `result`
TrendingCoinsRoute(result, t) ==
    IF Len(result.data) = 0
    THEN NotFound("trending-coins", t)
    ELSE Json(200, [count |-> Len(result.data)] @@ result)

\* mutant: the aggregate route adds a count like the list routes do
BtcDominanceRoute_WithCount(result, t) ==
    IF result.data.btcDominance = 0
    THEN NotFound("btc-dominance", t)
    ELSE Json(200, [count |-> 1] @@ result)

\* GET /btc-dominance, the try block after getCachedData returned `result`
\* (!x is true of the number 0)
BtcDominanceRoute(result, t) ==
    IF result.data.btcDominance = 0
    THEN NotFound("btc-dominance", t)
    ELSE Json(200, result)

Route(k, result, t) ==
    IF k = "btc-dominance" THEN BtcDominanceRoute(result, t)
    ELSE TrendingCoinsRoute(result, t)

\* mutant: the sweep also deletes an entry that is exactly 2x the window old
RECURSIVE CleanupLoop_Gte(_, _, _, _)
CleanupLoop_Gte(c, todo, t, cleanedCount) ==
    IF todo = {}
    THEN [cache |-> c, cleanedCount |-> cleanedCount]
    ELSE LET key == CHOOSE x \in todo : TRUE
         IN  IF t - c[key].timestamp >= CACHE_DURATION * 2
             THEN CleanupLoop_Gte(MapDelete(c, key), todo \ {key}, t, cleanedCount + 1)
             ELSE CleanupLoop_Gte(c, todo \ {key}, t, cleanedCount)

\* mutant: the pass removes what is older than three windows
RECURSIVE CleanupLoop_ThreeTimes(_, _, _, _)
CleanupLoop_ThreeTimes(c, todo, t, cleanedCount) ==
    IF todo = {}
    THEN [cache |-> c, cleanedCount |-> cleanedCount]
    ELSE LET key == CHOOSE x \in todo : TRUE
         IN  IF t - c[key].timestamp > CACHE_DURATION * 3
             THEN CleanupLoop_ThreeTimes(MapDelete(c, key), todo \ {key}, t, cleanedCount + 1)
             ELSE CleanupLoop_ThreeTimes(c, todo \ {key}, t, cleanedCount)

\* mutant: the pass stops after the first entry it deletes
RECURSIVE CleanupLoop_OnePerPass(_, _, _, _)
CleanupLoop_OnePerPass(c, todo, t, cleanedCount) ==
    IF todo = {}
    THEN [cache |-> c, cleanedCount |-> cleanedCount]
    ELSE LET key == CHOOSE x \in todo : TRUE
         IN  IF t - c[key].timestamp > CACHE_DURATION * 2
             THEN [cache |-> MapDelete(c, key), cleanedCount |-> cleanedCount + 1]
             ELSE CleanupLoop_OnePerPass(c, todo \ {key}, t, cleanedCount)

\* cleanupCache: one pass over the entries, deleting those older than 2x
RECURSIVE CleanupLoop(_, _, _, _)
CleanupLoop(c, todo, t, cleanedCount) ==
    IF todo = {}
    THEN [cache |-> c, cleanedCount |-> cleanedCount]
    ELSE LET key == CHOOSE x \in todo : TRUE
         IN  IF t - c[key].timestamp > CACHE_DURATION * 2
             THEN CleanupLoop(MapDelete(c, key), todo \ {key}, t, cleanedCount + 1)
             ELSE CleanupLoop(c, todo \ {key}, t, cleanedCount)

cleanupCache(c, t) == CleanupLoop(c, DOMAIN c, t, 0)

\* GET /cache-status: one row per entry
CacheInfo(c, t) ==
    [k \in DOMAIN c |->
        LET age == (t - c[k].timestamp) \div 1000
            durationSeconds == CACHE_DURATION \div 1000
            left == durationSeconds - age
        IN  [key |-> k,
             ageSeconds |-> age,
             remainingSeconds |-> IF left > 0 THEN left ELSE 0,
             expired |-> age > durationSeconds]]

\* GET /cache-status, the loop over cache.entries(): the rows pushed so far
\* and the keys still to visit
RECURSIVE CacheInfoLoop(_, _, _, _)
CacheInfoLoop(c, todo, t, cacheInfo) ==
    IF todo = {}
    THEN cacheInfo
    ELSE LET key == CHOOSE x \in todo : TRUE
         IN  CacheInfoLoop(c, todo \ {key}, t, Append(cacheInfo, CacheInfo(c, t)[key]))

\* mutant: the status endpoint drops the entries it finds expired
InspectCache_Evicts(c, t) ==
    LET cacheInfo == CacheInfoLoop(c, DOMAIN c, t, <<>>)
        kept == {k \in DOMAIN c : ~CacheInfo(c, t)[k].expired}
    IN  [cache |-> [k \in kept |-> c[k]],
         resp  |-> Json(200, [status |-> "success",
                              timestamp |-> t,
                              cacheDurationSeconds |-> CACHE_DURATION \div 1000,
                              totalCacheEntries |-> Cardinality(DOMAIN c),
                              cacheEntries |-> cacheInfo])]

\* GET /cache-status: the Map is only read
InspectCache(c, t) ==
    LET cacheInfo == CacheInfoLoop(c, DOMAIN c, t, <<>>)
    IN  [cache |-> c,
         resp  |-> Json(200, [status |-> "success",
                              timestamp |-> t,
                              cacheDurationSeconds |-> CACHE_DURATION \div 1000,
                              totalCacheEntries |-> Cardinality(DOMAIN c),
                              cacheEntries |-> cacheInfo])]

\* `Cleared ${clearedCount} cache entries`
ClearedMessage(clearedCount) ==
    "Cleared " \o ToString(clearedCount) \o " cache entries"

\* mutant: cache.size is read after cache.clear()
ClearCache_CountAfter(c, t) ==
    LET cleared == EmptyMap
        clearedCount == Cardinality(DOMAIN cleared)
    IN  [cache |-> cleared,
         clearedCount |-> clearedCount,
         resp |-> Json(200, [status |-> "success",
                             message |-> ClearedMessage(clearedCount),
                             timestamp |-> t])]

\* DELETE /cache: cache.size is read, then cache.clear()
ClearCache(c, t) ==
    LET clearedCount == Cardinality(DOMAIN c)
    IN  [cache |-> EmptyMap,
         clearedCount |-> clearedCount,
         resp |-> Json(200, [status |-> "success",
                             message |-> ClearedMessage(clearedCount),
                             timestamp |-> t])]

\* -------------------------------------------- canonicalization engine
\* A string is the sequence of its characters.  A JavaScript number is NaN
\* or a decimal: sign, integer digits (none for 0, no leading zero) and
\* fraction digits (no trailing zero).  Products and quotients by a power of
\* ten are exact here; the double-precision results can differ from them in
\* the 16th significant digit.
DigitChars == <<"0", "1", "2", "3", "4", "5", "6", "7", "8", "9">>

IsDigit(ch) == \E i \in 1..Len(DigitChars) : DigitChars[i] = ch

DigitOf(ch) == (CHOOSE i \in 1..Len(DigitChars) : DigitChars[i] = ch) - 1

CharOf(d) == DigitChars[d + 1]

CharsOf(ds) == [i \in 1..Len(ds) |-> CharOf(ds[i])]

W_trillion == <<"t", "r", "i", "l", "l", "i", "o", "n">>

W_billion == <<"b", "i", "l", "l", "i", "o", "n">>

W_million == <<"m", "i", "l", "l", "i", "o", "n">>

NaN == [nan |-> TRUE, neg |-> FALSE, int |-> <<>>, frac |-> <<>>]

\* n zeros (none when n <= 0)
Zeros(n) == [i \in 1..(IF n > 0 THEN n ELSE 0) |-> 0]

RECURSIVE StripLeadingZeros(_)
StripLeadingZeros(ds) ==
    IF ds # <<>> /\ ds[1] = 0 THEN StripLeadingZeros(Tail(ds)) ELSE ds

RECURSIVE StripTrailingZeros(_)
StripTrailingZeros(ds) ==
    IF ds # <<>> /\ ds[Len(ds)] = 0
    THEN StripTrailingZeros(SubSeq(ds, 1, Len(ds) - 1))
    ELSE ds

Number(neg, int, frac) ==
    [nan |-> FALSE, neg |-> neg,
     int |-> StripLeadingZeros(int), frac |-> StripTrailingZeros(frac)]

\* x * 10^n
Times10(x, n) ==
    IF x.nan THEN NaN
    ELSE LET padded == x.frac \o Zeros(n)
         IN  Number(x.neg, x.int \o SubSeq(padded, 1, n),
                    SubSeq(padded, n + 1, Len(padded)))

\* x / 10^n
Div10(x, n) ==
    IF x.nan THEN NaN
    ELSE LET padded == Zeros(n) \o x.int
             cut == Len(padded) - n
         IN  Number(x.neg, SubSeq(padded, 1, cut),
                    SubSeq(padded, cut + 1, Len(padded)) \o x.frac)

\* x >= 10^n (false of NaN)
AtLeastPow10(x, n) == ~x.nan /\ ~x.neg /\ Len(x.int) >= n + 1

\* x > 10^n
MoreThanPow10(x, n) ==
    AtLeastPow10(x, n) /\ x # Number(FALSE, <<1>> \o Zeros(n), <<>>)

\* the digit string plus one
RECURSIVE Increment(_)
Increment(ds) ==
    IF ds = <<>> THEN <<1>>
    ELSE LET front == SubSeq(ds, 1, Len(ds) - 1)
             last == ds[Len(ds)]
         IN  IF last = 9 THEN Increment(front) \o <<0>>
                         ELSE front \o <<last + 1>>

\* |x| rounded to `places` fraction digits, a tie going up: the integer
\* digits and exactly `places` fraction digits
RoundAt(x, places) ==
    LET padded == x.frac \o Zeros(places)
        digits == x.int \o SubSeq(padded, 1, places)
        up == Len(x.frac) > places /\ x.frac[places + 1] >= 5
        rounded == IF up THEN Increment(digits) ELSE digits
        whole == Zeros(places + 1 - Len(rounded)) \o rounded
        cut == Len(whole) - places
    IN  [int |-> StripLeadingZeros(SubSeq(whole, 1, cut)),
         frac |-> SubSeq(whole, cut + 1, Len(whole))]

IntChars(ds) == IF ds = <<>> THEN <<"0">> ELSE CharsOf(ds)

\* Number.prototype.toFixed(fractionDigits)
toFixed(x, fractionDigits) ==
    IF x.nan THEN <<"N", "a", "N">>
    ELSE LET r == RoundAt(x, fractionDigits)
             sign == IF x.neg /\ (x.int # <<>> \/ x.frac # <<>>) THEN <<"-">> ELSE <<>>
         IN  sign \o IntChars(r.int)
             \o (IF fractionDigits = 0 THEN <<>> ELSE <<".">> \o CharsOf(r.frac))

\* the integer digits in groups of three
RECURSIVE Grouped(_)
Grouped(ds) ==
    IF Len(ds) <= 3 THEN IntChars(ds)
    ELSE Grouped(SubSeq(ds, 1, Len(ds) - 3)) \o <<",">>
         \o CharsOf(SubSeq(ds, Len(ds) - 2, Len(ds)))

\* Number.prototype.toLocaleString() in the en-US locale: grouped integer
\* part, at most three fraction digits
toLocaleString(x) ==
    IF x.nan THEN <<"N", "a", "N">>
    ELSE LET r == RoundAt(x, 3)
             frac == StripTrailingZeros(r.frac)
         IN  (IF x.neg THEN <<"-">> ELSE <<>>) \o Grouped(r.int)
             \o (IF frac = <<>> THEN <<>> ELSE <<".">> \o CharsOf(frac))

\* mutant: the mantissa is written without decimals
marketCapNumToText_NoDecimals(value) ==
    IF AtLeastPow10(value, 12)
    THEN <<"$">> \o toFixed(Div10(value, 12), 0) \o <<" ">> \o W_trillion
    ELSE IF AtLeastPow10(value, 9)
    THEN <<"$">> \o toFixed(Div10(value, 9), 0) \o <<" ">> \o W_billion
    ELSE IF AtLeastPow10(value, 6)
    THEN <<"$">> \o toFixed(Div10(value, 6), 0) \o <<" ">> \o W_million
    ELSE <<"$">> \o toLocaleString(value)

\* mutant: the tier bounds are exclusive
marketCapNumToText_Exclusive(value) ==
    IF MoreThanPow10(value, 12)
    THEN <<"$">> \o toFixed(Div10(value, 12), 2) \o <<" ">> \o W_trillion
    ELSE IF MoreThanPow10(value, 9)
    THEN <<"$">> \o toFixed(Div10(value, 9), 2) \o <<" ">> \o W_billion
    ELSE IF MoreThanPow10(value, 6)
    THEN <<"$">> \o toFixed(Div10(value, 6), 2) \o <<" ">> \o W_million
    ELSE <<"$">> \o toLocaleString(value)

\* marketCapNumToText
marketCapNumToText(value) ==
    IF AtLeastPow10(value, 12)
    THEN <<"$">> \o toFixed(Div10(value, 12), 2) \o <<" ">> \o W_trillion
    ELSE IF AtLeastPow10(value, 9)
    THEN <<"$">> \o toFixed(Div10(value, 9), 2) \o <<" ">> \o W_billion
    ELSE IF AtLeastPow10(value, 6)
    THEN <<"$">> \o toFixed(Div10(value, 6), 2) \o <<" ">> \o W_million
    ELSE <<"$">> \o toLocaleString(value)

\* String.prototype.includes: case-sensitive substring test
Includes(text, sub) ==
    \E i \in 1..(Len(text) - Len(sub) + 1) : SubSeq(text, i, i + Len(sub) - 1) = sub

\* text.replace(/[^\d.-]/g, '')
StripNonNumeric(text) == SelectSeq(text, LAMBDA ch : IsDigit(ch) \/ ch \in {".", "-"})

\* length of the longest prefix of s made of digits
DigitPrefixLen(s) ==
    IF \E i \in 1..Len(s) : ~IsDigit(s[i])
    THEN (CHOOSE i \in 1..Len(s) : ~IsDigit(s[i]) /\ \A j \in 1..(i - 1) : IsDigit(s[j])) - 1
    ELSE Len(s)

\* mutant: 0 stands in for a text without a number (`parseFloat(...) || 0`)
ParseFloat_OrZero(s) ==
    LET neg == s # <<>> /\ s[1] = "-"
        body == IF neg THEN Tail(s) ELSE s
        intLen == DigitPrefixLen(body)
        rest == SubSeq(body, intLen + 1, Len(body))
        afterPoint == IF rest # <<>> /\ rest[1] = "." THEN Tail(rest) ELSE <<>>
        fracLen == DigitPrefixLen(afterPoint)
    IN  IF intLen = 0 /\ fracLen = 0
        THEN Number(FALSE, <<>>, <<>>)
        ELSE Number(neg,
                    [i \in 1..intLen |-> DigitOf(body[i])],
                    [i \in 1..fracLen |-> DigitOf(afterPoint[i])])

\* parseFloat of a string of digits, '.' and '-': an optional sign, digits,
\* an optional point and digits; what follows is ignored; NaN when that
\* prefix has no digit
ParseFloat(s) ==
    LET neg == s # <<>> /\ s[1] = "-"
        body == IF neg THEN Tail(s) ELSE s
        intLen == DigitPrefixLen(body)
        rest == SubSeq(body, intLen + 1, Len(body))
        afterPoint == IF rest # <<>> /\ rest[1] = "." THEN Tail(rest) ELSE <<>>
        fracLen == DigitPrefixLen(afterPoint)
    IN  IF intLen = 0 /\ fracLen = 0
        THEN NaN
        ELSE Number(neg,
                    [i \in 1..intLen |-> DigitOf(body[i])],
                    [i \in 1..fracLen |-> DigitOf(afterPoint[i])])

\* marketCapTextToNum
marketCapTextToNum(marketCapText) ==
    LET parsed == ParseFloat(StripNonNumeric(marketCapText))
    IN  IF Includes(marketCapText, W_trillion) \/ Includes(marketCapText, <<"T">>)
        THEN Times10(parsed, 12)
        ELSE IF Includes(marketCapText, W_million) \/ Includes(marketCapText, <<"M">>)
        THEN Times10(parsed, 6)
        ELSE IF Includes(marketCapText, W_billion) \/ Includes(marketCapText, <<"B">>)
        THEN Times10(parsed, 9)
        ELSE parsed

\* --------------------------------------------------------------------- Init
Init ==
    /\ now = 0
    /\ cache = EmptyMap
    /\ pending = [k \in Keys |-> 0]
    /\ nextSweep = SWEEP_INTERVAL
    /\ fetches = 0
    /\ lastResp = <<>>
    /\ lastSweep = <<>>
    /\ good = EmptyMap
    /\ first = [k \in Keys |-> "none"]
    /\ recentFetch = {}
    /\ canon = <<>>

\* ------------------------------------------------------------------ actions
\* mutant: a call that has been suspended for a whole window is dropped
\* without a response
Tick_Timeout(d) ==
    /\ now + d <= nextSweep + MaxMs
    /\ IF d = 1 THEN now % CACHE_DURATION < MaxMs
                ELSE now \div CACHE_DURATION < MaxWindows
    /\ now' = now + d
    /\ recentFetch' = IF d < CACHE_DURATION THEN recentFetch ELSE {}
    /\ pending' = IF d < CACHE_DURATION THEN pending ELSE [k \in DOMAIN pending |-> 0]
    /\ first' = IF d < CACHE_DURATION THEN first
                ELSE [k \in DOMAIN first |-> IF first[k] = "pending" THEN "done" ELSE first[k]]
    /\ lastResp' = <<>>
    /\ lastSweep' = <<>>
    /\ UNCHANGED <<cache, nextSweep, fetches, good, canon>>

\* The clock advances by d ms.  The single milliseconds that follow a whole
\* window add up to MaxMs < CACHE_DURATION, so a call is a window old exactly
\* when a step of a whole window has been taken since it started.
Tick(d) ==
    /\ now + d <= nextSweep + MaxMs
    /\ IF d = 1 THEN now % CACHE_DURATION < MaxMs
                ELSE now \div CACHE_DURATION < MaxWindows
    /\ now' = now + d
    /\ recentFetch' = IF d < CACHE_DURATION THEN recentFetch ELSE {}
    /\ lastResp' = <<>>
    /\ lastSweep' = <<>>
    /\ UNCHANGED <<cache, pending, nextSweep, fetches, good, first, canon>>

\* mutant: a miss while a call for the same key is suspended joins that call
\* instead of invoking the producer again
StartRequest_SingleFlight(k) ==
    /\ IF IsValidCached(cache, k, now)
       THEN LET result == cache[k].data
                resp == Route(k, result, now)
            IN  /\ lastResp' = << [key |-> k, path |-> "hit", first |-> first[k] = "none",
                                   result |-> result,
                                   code |-> resp.code, body |-> resp.body] >>
                /\ UNCHANGED <<pending, fetches, recentFetch>>
       ELSE /\ fetches < MaxFetch
            /\ pending' = [pending EXCEPT ![k] = @ + 1]
            /\ fetches' = IF pending[k] > 0 THEN fetches ELSE fetches + 1
            /\ recentFetch' = recentFetch \cup {k}
            /\ lastResp' = <<>>
    /\ first' = [first EXCEPT ![k] = IF @ = "none"
                                     THEN (IF IsValidCached(cache, k, now)
                                           THEN "done" ELSE "pending")
                                     ELSE @]
    /\ lastSweep' = <<>>
    /\ UNCHANGED <<now, cache, nextSweep, good, canon>>

\* A request for key k arrives: the route handler calls getCachedData, which
\* either returns the valid cached envelope at once (and the handler answers)
\* or calls the producer and suspends.
StartRequest(k) ==
    /\ IF IsValidCached(cache, k, now)
       THEN LET result == cache[k].data
                resp == Route(k, result, now)
            IN  /\ lastResp' = << [key |-> k, path |-> "hit", first |-> first[k] = "none",
                                   result |-> result,
                                   code |-> resp.code, body |-> resp.body] >>
                /\ UNCHANGED <<pending, fetches, recentFetch>>
       ELSE /\ fetches < MaxFetch
            /\ pending' = [pending EXCEPT ![k] = @ + 1]
            /\ fetches' = fetches + 1
            /\ recentFetch' = recentFetch \cup {k}
            /\ lastResp' = <<>>
    /\ first' = [first EXCEPT ![k] = IF @ = "none"
                                     THEN (IF IsValidCached(cache, k, now)
                                           THEN "done" ELSE "pending")
                                     ELSE @]
    /\ lastSweep' = <<>>
    /\ UNCHANGED <<now, cache, nextSweep, good, canon>>

\* The producer of a suspended call for key k settles on `page`; getCachedData
\* resumes and the route handler answers (try block or catch block).  isFirst
\* says whether the call is the first request ever issued for k.
Settle(k, page, isFirst) ==
    /\ pending[k] > 0
    /\ page \in Pages(k)
    /\ IF isFirst THEN first[k] = "pending"
                  ELSE pending[k] > (IF first[k] = "pending" THEN 1 ELSE 0)
    /\ pending' = [pending EXCEPT ![k] = @ - 1]
    /\ LET out == Scraper(k, page)
       IN  IF out.ok
           THEN LET st == GetCachedDataStore(cache, k, out.value, now)
                    resp == Route(k, st.result, now)
                IN  /\ cache' = st.cache
                    /\ good' = MapSet(good, k, st.result)
                    /\ lastResp' = << [key |-> k, path |-> "fresh", first |-> isFirst,
                                       hadEntry |-> k \in DOMAIN cache,
                                       result |-> st.result,
                                       code |-> resp.code, body |-> resp.body] >>
           ELSE LET st == GetCachedDataThrow(cache, k, out.error)
                    effects == CatchBlock(st.cache, k, st.thrown, ErrorMessage(k), now)
                    resp == Responses(effects)[1]
                IN  /\ cache' = st.cache
                    /\ good' = good
                    /\ lastResp' = << [key |-> k, path |-> "failed", first |-> isFirst,
                                       hadEntry |-> k \in DOMAIN cache,
                                       thrown |-> st.thrown,
                                       effects |-> effects,
                                       code |-> resp.code, body |-> resp.body] >>
    /\ first' = [first EXCEPT ![k] = IF isFirst THEN "done" ELSE @]
    /\ lastSweep' = <<>>
    /\ UNCHANGED <<now, nextSweep, fetches, recentFetch, canon>>

\* mutant: the flush also abandons the calls that are suspended
DeleteCache_Cancels ==
    /\ LET st == ClearCache(cache, now)
       IN  /\ cache' = st.cache
           /\ lastResp' = << [path |-> "flush", clearedCount |-> st.clearedCount,
                               code |-> st.resp.code, body |-> st.resp.body] >>
    /\ good' = EmptyMap
    /\ pending' = [k \in DOMAIN pending |-> 0]
    /\ first' = [k \in DOMAIN first |-> IF first[k] = "pending" THEN "done" ELSE first[k]]
    /\ lastSweep' = <<>>
    /\ UNCHANGED <<now, nextSweep, fetches, recentFetch, canon>>

\* DELETE /cache
DeleteCache ==
    /\ LET st == ClearCache(cache, now)
       IN  /\ cache' = st.cache
           /\ lastResp' = << [path |-> "flush", clearedCount |-> st.clearedCount,
                               code |-> st.resp.code, body |-> st.resp.body] >>
    /\ good' = EmptyMap
    /\ lastSweep' = <<>>
    /\ UNCHANGED <<now, pending, nextSweep, fetches, first, recentFetch, canon>>

\* GET /cache-status
CacheStatus ==
    /\ LET st == InspectCache(cache, now)
       IN  /\ cache' = st.cache
           /\ good' = [k \in DOMAIN good \cap DOMAIN st.cache |-> good[k]]
           /\ lastResp' = << [path |-> "inspect",
                               code |-> st.resp.code, body |-> st.resp.body] >>
    /\ lastSweep' = <<>>
    /\ UNCHANGED <<now, pending, nextSweep, fetches, first, recentFetch, canon>>

\* The setInterval timer fires cleanupCache and is re-armed.
CleanupCache ==
    /\ now >= nextSweep
    /\ LET st == cleanupCache(cache, now)
       IN  /\ cache' = st.cache
           /\ lastSweep' = << st.cleanedCount >>
           /\ good' = [k \in DOMAIN good \cap DOMAIN st.cache |-> good[k]]
    /\ nextSweep' = now + SWEEP_INTERVAL
    /\ lastResp' = <<>>
    /\ UNCHANGED <<now, pending, fetches, first, recentFetch, canon>>

Next ==
    \/ \E d \in {1, CACHE_DURATION} : Tick(d)
    \/ \E k \in Keys : StartRequest(k)
    \/ \E k \in Keys : \E page \in Pages(k) : \E isFirst \in BOOLEAN : Settle(k, page, isFirst)
    \/ DeleteCache
    \/ CacheStatus
    \/ CleanupCache

Spec == Init /\ [][Next]_vars

\* Spec with every producer call settling eventually: while calls for a key
\* are suspended, one of them resumes.
Fairness ==
    \A k \in Keys :
        WF_vars(\E page \in Pages(k) : \E isFirst \in BOOLEAN : Settle(k, page, isFirst))

\* requests, producers settling, the clock (in whole windows) and the sweep
NextLive ==
    \/ Tick(CACHE_DURATION)
    \/ \E k \in Keys : StartRequest(k)
    \/ \E k \in Keys : \E page \in Pages(k) : \E isFirst \in BOOLEAN : Settle(k, page, isFirst)
    \/ CleanupCache

SpecLive == Init /\ [][NextLive]_vars /\ Fairness

\* ------------------------------------------ the sweep over two periods
\* The clock advances by d ms, as in Tick, over MaxSweepWindows windows.
TickSweep(d) ==
    /\ now + d <= nextSweep + MaxMs
    /\ IF d = 1 THEN now % CACHE_DURATION < MaxMs
                ELSE now \div CACHE_DURATION < MaxSweepWindows
    /\ now' = now + d
    /\ recentFetch' = IF d < CACHE_DURATION THEN recentFetch ELSE {}
    /\ lastResp' = <<>>
    /\ lastSweep' = <<>>
    /\ UNCHANGED <<cache, pending, nextSweep, fetches, good, first, canon>>

\* requests for one key, the clock and the sweep
NextSweep ==
    \/ \E d \in {1, CACHE_DURATION} : TickSweep(d)
    \/ StartRequest("trending-coins")
    \/ \E page \in Pages("trending-coins") : \E isFirst \in BOOLEAN :
          Settle("trending-coins", page, isFirst)
    \/ CleanupCache

SpecSweep == Init /\ [][NextSweep]_vars

\* ------------------------------------------- the administration endpoints
\* Three of the list-shaped resources (routes at lines 79-150).
AdminKeys == {"trending-coins", "trending-categories", "top-gainers"}

\* The server one millisecond after a request for each key of some subset of
\* AdminKeys has been answered from a successful producer call at time 0:
\* every such key has the entry that call stored.
InitAdmin ==
    /\ now = 1
    /\ \E S \in SUBSET AdminKeys :
         \E rows \in [S -> {<<>>, <<"BTC">>}] :
            LET freshData(k) == scrapeTrendingCoins([ok |-> TRUE, rows |-> rows[k]]).value
                stored(k) == GetCachedDataStore(EmptyMap, k, freshData(k), 0)
            IN  /\ cache = [k \in S |-> stored(k).cache[k]]
                /\ good = [k \in S |-> stored(k).result]
                /\ first = [k \in AdminKeys |-> IF k \in S THEN "done" ELSE "none"]
                /\ fetches = Cardinality(S)
                /\ recentFetch = S
    /\ pending = [k \in AdminKeys |-> 0]
    /\ nextSweep = SWEEP_INTERVAL
    /\ lastResp = <<>>
    /\ lastSweep = <<>>
    /\ canon = <<>>

NextAdmin ==
    \/ \E d \in {1, CACHE_DURATION} : Tick(d)
    \/ DeleteCache
    \/ CacheStatus
    \/ CleanupCache

SpecAdmin == InitAdmin /\ [][NextAdmin]_vars

\* ---------------------------------------------- the conversions, applied
\* What a scraped market-cap cell is made of: currency sign, digits, point,
\* minus sign, and scale indicators in the spellings pages use.
TextTokens ==
    { <<"$">>, <<"1">>, <<"2">>, <<".">>, <<"-">>,
      <<"T">>, <<"B">>, <<"M">>, <<"b">>,
      W_trillion, W_billion, W_million,
      <<"B", "i", "l", "l", "i", "o", "n">>,
      <<"B", "I", "L", "L", "I", "O", "N">> }

RECURSIVE Flatten(_)
Flatten(ts) == IF ts = <<>> THEN <<>> ELSE Head(ts) \o Flatten(Tail(ts))

Texts == { Flatten(ts) : ts \in UNION { [1..n -> TextTokens] : n \in 0..MaxTokens } }

MantissaDigits == {1, 2, 3, 9}

Mantissas == UNION { [1..n -> MantissaDigits] : n \in 1..MaxDigits }

\* NaN, the numbers +-m * 10^(e-4), and the numbers 10^n - 1
Values ==
    {NaN}
    \cup { Times10(Div10(Number(neg, m, <<>>), 4), e) :
              m \in Mantissas, e \in 0..MaxExp, neg \in BOOLEAN }
    \cup { Number(FALSE, [i \in 1..n |-> 9], <<>>) : n \in 1..(MaxExp - 3) }

TextValue(text) == [kind |-> "text", text |-> text]

NumValue(num) == [kind |-> "num", num |-> num]

InitCanon ==
    /\ now = 0
    /\ cache = EmptyMap
    /\ pending = [k \in Keys |-> 0]
    /\ nextSweep = SWEEP_INTERVAL
    /\ fetches = 0
    /\ lastResp = <<>>
    /\ lastSweep = <<>>
    /\ good = EmptyMap
    /\ first = [k \in Keys |-> "none"]
    /\ recentFetch = {}
    /\ \/ \E text \in Texts : canon = << TextValue(text) >>
       \/ \E num \in Values : canon = << NumValue(num) >>

\* marketCapTextToNum is applied to the text at the end of the chain
TextToNum ==
    /\ canon # <<>>
    /\ Len(canon) < MaxChain
    /\ canon[Len(canon)].kind = "text"
    /\ canon' = Append(canon, NumValue(marketCapTextToNum(canon[Len(canon)].text)))
    /\ UNCHANGED serverVars

\* marketCapNumToText is applied to the number at the end of the chain
NumToText ==
    /\ canon # <<>>
    /\ Len(canon) < MaxChain
    /\ canon[Len(canon)].kind = "num"
    /\ canon' = Append(canon, TextValue(marketCapNumToText(canon[Len(canon)].num)))
    /\ UNCHANGED serverVars

NextCanon ==
    \/ TextToNum
    \/ NumToText

SpecCanon == InitCanon /\ [][NextCanon]_vars

\* ------------------------------------------- the 24h change, as formatted
\* What a scraped change cell is made of.
ChangeTokens ==
    { <<"+">>, <<"-">>, <<"%">>, <<".">>, <<"5">>,
      <<"0", ".", "0", "0">>, <<"1", ".", "5">>, <<"0", ".", "0", "0", "4">> }

ChangeTexts == { Flatten(ts) : ts \in UNION { [1..n -> ChangeTokens] : n \in 0..MaxTokens } }

\* the sign test of the template: NaN >= 0 is false, -0 >= 0 is true
NonNegative(x) == ~x.nan /\ (~x.neg \/ (x.int = <<>> /\ x.frac = <<>>))

\* scrapeTrendingCoins: change24h and change24hFormatted of one row
CoinChange(changePercentageText) ==
    LET changePercentage == ParseFloat(StripNonNumeric(changePercentageText))
        formatted24hChange ==
            IF NonNegative(changePercentage)
            THEN <<"+">> \o toFixed(changePercentage, 2) \o <<"%">>
            ELSE toFixed(changePercentage, 2) \o <<"%">>
    IN  [change24h |-> changePercentage, change24hFormatted |-> formatted24hChange]

\* scrapeTrendingCategories: change24h and change24hFormatted of one row;
\* isPositive is whether the cell has the class "change--positive"
CategoryChange(changePercentageText, isPositive) ==
    LET cleanedPercentage == StripNonNumeric(changePercentageText)
        changePercentage == ParseFloat(cleanedPercentage)
    IN  [change24h |-> changePercentage,
         change24hFormatted |->
            (IF isPositive THEN <<"+">> ELSE <<>>) \o toFixed(changePercentage, 2) \o <<"%">>]

ChangeValue(producer, row) ==
    [kind |-> "change", producer |-> producer,
     change24h |-> row.change24h, change24hFormatted |-> row.change24hFormatted]

InitChange ==
    /\ now = 0
    /\ cache = EmptyMap
    /\ pending = [k \in Keys |-> 0]
    /\ nextSweep = SWEEP_INTERVAL
    /\ fetches = 0
    /\ lastResp = <<>>
    /\ lastSweep = <<>>
    /\ good = EmptyMap
    /\ first = [k \in Keys |-> "none"]
    /\ recentFetch = {}
    /\ \E text \in ChangeTexts : canon = << TextValue(text) >>

\* a row of the trending-coins page is turned into a record
FormatCoinChange ==
    /\ Len(canon) = 1
    /\ canon' = Append(canon, ChangeValue("trending-coins", CoinChange(canon[1].text)))
    /\ UNCHANGED serverVars

\* a row of the trending-categories page is turned into a record
FormatCategoryChange(isPositive) ==
    /\ Len(canon) = 1
    /\ canon' = Append(canon, ChangeValue("trending-categories",
                                          CategoryChange(canon[1].text, isPositive)))
    /\ UNCHANGED serverVars

NextChange ==
    \/ FormatCoinChange
    \/ \E isPositive \in BOOLEAN : FormatCategoryChange(isPositive)

SpecChange == InitChange /\ [][NextChange]_vars

\* ------------------------- the cache wrapper of src/unnamed/part_000
\* getCachedData of part_000, lines 33-36: the envelope
ResponseDataPart000(freshData) ==
    [status |-> "success", data |-> freshData]

\* getCachedData of part_000 after the producer resolved with freshData at
\* time t, lines 30-44
GetCachedDataStorePart000(c, k, freshData, t) ==
    LET responseData == ResponseDataPart000(freshData)
    IN  [cache  |-> MapSet(c, k, [data |-> responseData, timestamp |-> t]),
         result |-> responseData]

\* The producer of a suspended call for key k settles on `page` in the
\* router of part_000; its routes and its error handler are those of
\* index.js.
SettlePart000(k, page, isFirst) ==
    /\ pending[k] > 0
    /\ page \in Pages(k)
    /\ IF isFirst THEN first[k] = "pending"
                  ELSE pending[k] > (IF first[k] = "pending" THEN 1 ELSE 0)
    /\ pending' = [pending EXCEPT ![k] = @ - 1]
    /\ LET out == Scraper(k, page)
       IN  IF out.ok
           THEN LET st == GetCachedDataStorePart000(cache, k, out.value, now)
                    resp == Route(k, st.result, now)
                IN  /\ cache' = st.cache
                    /\ good' = MapSet(good, k, st.result)
                    /\ lastResp' = << [key |-> k, path |-> "fresh", first |-> isFirst,
                                       hadEntry |-> k \in DOMAIN cache,
                                       result |-> st.result,
                                       code |-> resp.code, body |-> resp.body] >>
           ELSE LET st == GetCachedDataThrow(cache, k, out.error)
                    effects == CatchBlock(st.cache, k, st.thrown, ErrorMessage(k), now)
                    resp == Responses(effects)[1]
                IN  /\ cache' = st.cache
                    /\ good' = good
                    /\ lastResp' = << [key |-> k, path |-> "failed", first |-> isFirst,
                                       hadEntry |-> k \in DOMAIN cache,
                                       thrown |-> st.thrown,
                                       effects |-> effects,
                                       code |-> resp.code, body |-> resp.body] >>
    /\ first' = [first EXCEPT ![k] = IF isFirst THEN "done" ELSE @]
    /\ lastSweep' = <<>>
    /\ UNCHANGED <<now, nextSweep, fetches, recentFetch, canon>>

\* part_000 has the request routes and the sweep, no administration routes
NextPart000 ==
    \/ \E d \in {1, CACHE_DURATION} : Tick(d)
    \/ \E k \in Keys : StartRequest(k)
    \/ \E k \in Keys : \E page \in Pages(k) : \E isFirst \in BOOLEAN :
          SettlePart000(k, page, isFirst)
    \/ CleanupCache

SpecPart000 == Init /\ [][NextPart000]_vars

\* ------------------------------------- a refresh in flight over an entry
\* The server at the moment a request for some key, having found the key's
\* entry one window old, has called the producer and is suspended: the
\* entry was stored at time 0 by the first request for the key.
InitFlight ==
    /\ now = CACHE_DURATION
    /\ \E k \in Keys :
         \E page \in {p \in Pages(k) : Scraper(k, p).ok} :
            LET stored == GetCachedDataStore(EmptyMap, k, Scraper(k, page).value, 0)
            IN  /\ cache = stored.cache
                /\ good = MapSet(EmptyMap, k, stored.result)
                /\ first = [x \in Keys |-> IF x = k THEN "done" ELSE "none"]
                /\ pending = [x \in Keys |-> IF x = k THEN 1 ELSE 0]
                /\ recentFetch = {k}
    /\ fetches = 2
    /\ nextSweep = SWEEP_INTERVAL
    /\ lastResp = <<>>
    /\ lastSweep = <<>>
    /\ canon = <<>>

\* no further request starts: the clock, the flush, the sweep, and the
\* suspended call resuming
NextFlight ==
    \/ \E d \in {1, CACHE_DURATION} : Tick(d)
    \/ DeleteCache
    \/ CleanupCache
    \/ \E k \in Keys : \E page \in Pages(k) : Settle(k, page, FALSE)

SpecFlight == InitFlight /\ [][NextFlight]_vars

\* ------------------------------------------------------------------- claims
Responded == lastResp # <<>>

Resp == lastResp[1]

IsRequestPath(r) == r.path \in {"hit", "fresh", "failed"}

\* The step answers no request, or a request for k.
StepFor(k) ==
    lastResp' # <<>> => (IsRequestPath(lastResp'[1]) /\ lastResp'[1].key = k)

\* A step in which a request for k arrives.
StartStep(k) == StepFor(k) /\ StartRequest(k)

\* A step in which the producer of a call for k settles on `page`.
SettleStep(k, page) ==
    /\ lastResp' # <<>>
    /\ StepFor(k)
    /\ \E isFirst \in BOOLEAN : Settle(k, page, isFirst)

HasMarker(body) == "message" \in DOMAIN body /\ body.message = FALLBACK_MESSAGE

\* C1 (stale-fallback law): when the producer of a request fails and an earlier
\* request for the key has succeeded (and its envelope has not been removed
\* since), the request is answered with HTTP 200 and exactly that envelope
\* (status 'success', same data) plus the marker message; a response sent on
\* the cache-hit or the fresh path never carries the marker.
C1_StaleFallback ==
    (Responded /\ IsRequestPath(Resp)) =>
        /\ (Resp.path = "failed" /\ Resp.key \in DOMAIN good) =>
                /\ Resp.code = 200
                /\ Resp.body = [message |-> FALLBACK_MESSAGE] @@ good[Resp.key]
                /\ Resp.body.status = "success"
                /\ Resp.body.data = good[Resp.key].data
                /\ Resp.body.message = FALLBACK_MESSAGE
        /\ (Resp.path \in {"hit", "fresh"}) => ~HasMarker(Resp.body)

C1_Witness ==
    /\ Responded
    /\ Resp.path = "failed"
    /\ Resp.key \in DOMAIN good
    /\ Resp.code = 200
    /\ now - good[Resp.key].timestamp >= CACHE_DURATION

\* C2 as claimed (cold-failure law, every interleaving): whenever the first
\* request ever issued for a key has its producer fail, it is answered with an
\* error envelope (status 'error', HTTP 500).
C2_Original ==
    (Responded /\ IsRequestPath(Resp) /\ Resp.path = "failed" /\ Resp.first) =>
        /\ Resp.code = 500
        /\ Resp.body.status = "error"

\* C2 amended: the first request ever issued for a key, when its producer
\* fails, is answered with an error envelope (status 'error', HTTP 500, no
\* marker) provided no other request for the key has stored an envelope that
\* is still present when the failure is handled.
C2_ColdFailure ==
    (Responded /\ IsRequestPath(Resp) /\ Resp.path = "failed" /\ Resp.first
        /\ Resp.key \notin DOMAIN good) =>
        /\ Resp.code = 500
        /\ Resp.body.status = "error"
        /\ ~HasMarker(Resp.body)

\* the first request fails while another request for the key is still in flight
C2_Witness ==
    /\ Responded
    /\ Resp.path = "failed"
    /\ Resp.first
    /\ Resp.code = 500
    /\ pending[Resp.key] >= 1

\* C3 as claimed (cache hit law, every interleaving and outcome): a call never
\* invokes the producer when another call for the same key that invoked the
\* producer started less than one freshness window before it.
C3_Original ==
    [][\A k \in Keys : (k \in recentFetch) => pending'[k] <= pending[k]]_vars

\* C3 amended: a call that starts less than one freshness window after an
\* earlier call for the same key completed successfully, the entry not having
\* been flushed in between, does not invoke the producer, so the two calls
\* invoke it at most once in total.
C3_CacheHit ==
    [][\A k \in Keys :
        (StartStep(k) /\ k \in DOMAIN good
            /\ now - good[k].timestamp < CACHE_DURATION)
        => (fetches' = fetches /\ pending' = pending)]_vars

\* a call is served from the cache while the call that fetched the entry is
\* less than a window old
C3_Witness ==
    /\ Responded
    /\ Resp.path = "hit"
    /\ Resp.key \in recentFetch
    /\ fetches = 1

\* C4 (cache-hit path): a call for a key whose entry is strictly younger than
\* the freshness window returns exactly the stored envelope, invokes no
\* producer and leaves the whole cache unchanged; otherwise (no entry, or age
\* >= the window) the producer is invoked.
C4_HitPath ==
    [][\A k \in Keys :
        StartStep(k) =>
            IF k \in DOMAIN cache /\ now - cache[k].timestamp < CACHE_DURATION
            THEN /\ lastResp' # <<>>
                 /\ lastResp'[1].path = "hit"
                 /\ lastResp'[1].result = cache[k].data
                 /\ fetches' = fetches
                 /\ pending' = pending
                 /\ cache' = cache
            ELSE /\ fetches' = fetches + 1
                 /\ pending' = [pending EXCEPT ![k] = @ + 1]
                 /\ lastResp' = <<>>
                 /\ cache' = cache]_vars

\* a hit is served while the cache holds another entry too
C4_Witness ==
    /\ Responded
    /\ Resp.path = "hit"
    /\ Cardinality(DOMAIN cache) = 2
    /\ Resp.result = cache[Resp.key].data

\* C5 (refresh path): when the producer of a call succeeds, the call builds an
\* envelope with status 'success' and the producer's result as data, stores
\* it under the key with the completion time as storedAtMillis, replacing any
\* previous entry of the key, and returns that same envelope.
C5_RefreshPath ==
    [][\A k \in Keys : \A page \in Pages(k) :
        (SettleStep(k, page) /\ Scraper(k, page).ok) =>
            /\ DOMAIN cache' = DOMAIN cache \cup {k}
            /\ cache'[k].timestamp = now
            /\ cache'[k].data.status = "success"
            /\ cache'[k].data.data = Scraper(k, page).value
            /\ lastResp'[1].path = "fresh"
            /\ lastResp'[1].result = cache'[k].data]_vars

\* a refresh has overwritten an earlier entry of the key
C5_Witness ==
    /\ Responded
    /\ Resp.path = "fresh"
    /\ Resp.hadEntry
    /\ cache[Resp.key].timestamp = now
    /\ now >= CACHE_DURATION

\* C6: when the producer fails, the cache is left exactly as it was and the
\* failure reaches the caller as an exception.
C6_FailureLeavesCache ==
    [][\A k \in Keys : \A page \in Pages(k) :
        (SettleStep(k, page) /\ ~Scraper(k, page).ok) =>
            /\ cache' = cache
            /\ lastResp'[1].path = "failed"
            /\ lastResp'[1].thrown = Scraper(k, page).error]_vars

\* a refresh failed while the key had an (expired) entry, which is still there
C6_Witness ==
    /\ Responded
    /\ Resp.path = "failed"
    /\ Resp.hadEntry
    /\ Resp.key \in DOMAIN cache
    /\ Resp.thrown = "Network Error"

\* C7: an entry exists for a key only if a producer call for the key has
\* completed successfully since the key was last removed by flush or sweep.
C7_EntryOnlyAfterSuccess ==
    DOMAIN cache \subseteq DOMAIN good

\* a producer call has just failed for a key that has no entry, while another
\* key has one
C7_Witness ==
    /\ Responded
    /\ Resp.path = "failed"
    /\ Resp.key \notin DOMAIN cache
    /\ cache # EmptyMap

\* C8: on a producer failure the stale fallback is served exactly when an
\* entry for the key exists at the moment the failure is handled, whatever
\* its age; otherwise the error response is sent.
C8_FallbackIffEntry ==
    [][\A k \in Keys : \A page \in Pages(k) :
        (SettleStep(k, page) /\ ~Scraper(k, page).ok) =>
            IF k \in DOMAIN cache
            THEN /\ lastResp'[1].code = 200
                 /\ lastResp'[1].body = [message |-> FALLBACK_MESSAGE] @@ cache[k].data
            ELSE /\ lastResp'[1].code = 500
                 /\ lastResp'[1].body.status = "error"
                 /\ ~HasMarker(lastResp'[1].body)]_vars

\* the fallback serves an entry older than 2x the window that the sweeper has
\* not yet removed
C8_Witness ==
    /\ Responded
    /\ Resp.path = "failed"
    /\ Resp.code = 200
    /\ Resp.key \in DOMAIN cache
    /\ now - cache[Resp.key].timestamp > 2 * CACHE_DURATION

\* C9 (sweep law): a sweep pass removes exactly the entries whose age is
\* strictly greater than 2x the freshness window and leaves the others
\* unchanged; a removed key is absent from the inspection listing; a request
\* for a key without entry invokes the producer, and a producer failure for a
\* key without entry yields the error envelope.
C9_SweepLaw ==
    /\ [][CleanupCache =>
            /\ DOMAIN cache' \subseteq DOMAIN cache
            /\ \A k \in DOMAIN cache :
                 IF now - cache[k].timestamp > 2 * CACHE_DURATION
                 THEN /\ k \notin DOMAIN cache'
                      /\ k \notin DOMAIN CacheInfo(cache', now')
                 ELSE /\ k \in DOMAIN cache'
                      /\ cache'[k] = cache[k]]_vars
    /\ [][\A k \in Keys : (StartStep(k) /\ k \notin DOMAIN cache) =>
            /\ fetches' = fetches + 1
            /\ pending'[k] = pending[k] + 1]_vars
    /\ [][\A k \in Keys : \A page \in Pages(k) :
            (SettleStep(k, page) /\ ~Scraper(k, page).ok /\ k \notin DOMAIN cache) =>
                /\ lastResp'[1].code = 500
                /\ lastResp'[1].body.status = "error"]_vars

\* a sweep has just removed an entry and kept another
C9_Witness ==
    /\ lastSweep # <<>>
    /\ lastSweep[1] >= 1
    /\ cache # EmptyMap

\* C10 (sweep is idempotent): in the state a sweep pass leaves, a second pass
\* at the same clock value removes nothing and reports zero; and a pass over
\* a cache with no entry older than 2x the window removes nothing.
C10_SweepIdempotent ==
    /\ lastSweep # <<>> =>
            cleanupCache(cache, now) = [cache |-> cache, cleanedCount |-> 0]
    /\ LET once == cleanupCache(cache, now)
       IN  cleanupCache(once.cache, now) = [cache |-> once.cache, cleanedCount |-> 0]
    /\ (\A k \in DOMAIN cache : now - cache[k].timestamp <= 2 * CACHE_DURATION) =>
            cleanupCache(cache, now) = [cache |-> cache, cleanedCount |-> 0]

\* a sweep has just removed two entries in one pass
C10_Witness ==
    /\ lastSweep # <<>>
    /\ lastSweep[1] = 2
    /\ cache = EmptyMap

\* A step in which DELETE /cache is handled.
FlushStep ==
    /\ lastResp' # <<>>
    /\ lastResp'[1].path = "flush"
    /\ DeleteCache

\* A step in which GET /cache-status is handled.
InspectStep ==
    /\ lastResp' # <<>>
    /\ lastResp'[1].path = "inspect"
    /\ CacheStatus

\* C11: DELETE /cache leaves the cache empty in one step and reports, as
\* clearedCount and in its message, the number of entries present just before
\* (3 for a cache of 3 entries); GET /cache-status handled right after it
\* lists no entry.
C11_InvalidateAll ==
    /\ [][FlushStep =>
            /\ lastResp'[1].clearedCount = Cardinality(DOMAIN cache)
            /\ lastResp'[1].body.message = ClearedMessage(Cardinality(DOMAIN cache))
            /\ lastResp'[1].body.status = "success"
            /\ cache' = EmptyMap]_vars
    /\ [][(Responded /\ Resp.path = "flush" /\ InspectStep) =>
            /\ lastResp'[1].body.cacheEntries = <<>>
            /\ lastResp'[1].body.totalCacheEntries = 0]_vars

C11_Witness ==
    /\ Responded
    /\ Resp.path = "flush"
    /\ Resp.clearedCount = 3
    /\ Resp.body.message = "Cleared 3 cache entries"
    /\ cache = EmptyMap
    /\ InspectCache(cache, now).resp.body.cacheEntries = <<>>

\* C12: GET /cache-status only reads: its response lists exactly one row for
\* each key that has an entry and no other row, no producer is invoked, and
\* the cache (every entry's envelope and timestamp) is the same after it.
C12_InspectReadOnly ==
    [][InspectStep =>
        LET rows == lastResp'[1].body.cacheEntries
        IN  /\ cache' = cache
            /\ fetches' = fetches
            /\ pending' = pending
            /\ Len(rows) = Cardinality(DOMAIN cache)
            /\ \A i \in 1..Len(rows) : rows[i].key \in DOMAIN cache
            /\ \A k \in DOMAIN cache :
                  Cardinality({i \in 1..Len(rows) : rows[i].key = k}) = 1
            /\ lastResp'[1].body.totalCacheEntries = Cardinality(DOMAIN cache)]_vars

C12_Witness ==
    /\ Responded
    /\ Resp.path = "inspect"
    /\ Len(Resp.body.cacheEntries) = 2
    /\ \E i \in 1..2 : Resp.body.cacheEntries[i].expired
    /\ \E i \in 1..2 : ~Resp.body.cacheEntries[i].expired
    /\ DOMAIN cache = Keys

\* C13: every envelope in the cache has status 'success' and exactly the
\* fields status, timestamp and data: no error envelope (404 or 500 body) and
\* no envelope carrying the fallback marker message is ever stored.
C13_OnlySuccessCached ==
    \A k \in DOMAIN cache :
        /\ DOMAIN cache[k].data = {"status", "timestamp", "data"}
        /\ cache[k].data.status = "success"

C13_Witness ==
    /\ Responded
    /\ Resp.path = "failed"
    /\ Resp.code = 200
    /\ HasMarker(Resp.body)
    /\ Resp.key \in DOMAIN cache
    /\ "message" \notin DOMAIN cache[Resp.key].data

\* C14: whenever a suspended call completes, its request is answered in that
\* step; when the producer failed, the handler calls res.json exactly once,
\* and what it sends is either the stale fallback (HTTP 200, status 'success',
\* marker) or the error envelope (HTTP 500, status 'error', the error text).
C14_FailureAnsweredOnce ==
    [][\A k \in Keys : pending'[k] < pending[k] =>
        /\ lastResp' # <<>>
        /\ lastResp'[1].path \in {"fresh", "failed"}
        /\ lastResp'[1].key = k
        /\ lastResp'[1].path = "failed" =>
              LET r == lastResp'[1]
                  sent == Responses(r.effects)
              IN  /\ Len(sent) = 1
                  /\ sent[1].code = r.code
                  /\ sent[1].body = r.body
                  /\ \/ /\ r.code = 200
                        /\ r.body.status = "success"
                        /\ HasMarker(r.body)
                     \/ /\ r.code = 500
                        /\ r.body.status = "error"
                        /\ r.body.error = r.thrown]_vars

C14_Witness ==
    /\ Responded
    /\ Resp.path = "failed"
    /\ Len(Responses(Resp.effects)) = 1
    /\ Resp.code = 500
    /\ Resp.body.status = "error"
    /\ Resp.thrown = "Cannot read properties of null (reading 'toFixed')"

\* C15: when the producer of a request has failed, the handler writes the
\* error text to the log before it sends the response, whether it then serves
\* the stale fallback or the error envelope.
C15_LoggedBeforeResponse ==
    (Responded /\ IsRequestPath(Resp) /\ Resp.path = "failed") =>
        \E i \in 1..Len(Resp.effects) :
            /\ Resp.effects[i] = ConsoleError(Resp.thrown)
            /\ \A j \in 1..Len(Resp.effects) :
                  Resp.effects[j].kind = "res.json" => i < j

C15_Witness ==
    /\ Responded
    /\ Resp.path = "failed"
    /\ HasMarker(Resp.body)
    /\ Len(Resp.effects) = 2
    /\ Resp.effects[1] = ConsoleError("Network Error")
    /\ Resp.effects[2].kind = "res.json"
    /\ Resp.effects[2].code = 200

\* C16 (EmptyResult): a request for the list resource that getCachedData
\* answers with an empty list, fresh or from the cache, gets HTTP 404 with
\* status 'error' and the not-found message (not the HTTP 500 of a producer
\* failure), and the envelope holding the empty list is in the cache; a
\* request that arrives while that entry is within the freshness window is
\* answered 404 from it at once, without a producer call.
C16_EmptyResult ==
    /\ [][(/\ lastResp' # <<>>
           /\ IsRequestPath(lastResp'[1])
           /\ lastResp'[1].key = "trending-coins"
           /\ lastResp'[1].path \in {"hit", "fresh"}
           /\ lastResp'[1].result.data = <<>>) =>
            /\ lastResp'[1].code = 404
            /\ lastResp'[1].code # 500
            /\ lastResp'[1].body = [status |-> "error",
                                    message |-> "No trending coins found",
                                    timestamp |-> now]
            /\ "trending-coins" \in DOMAIN cache'
            /\ cache'["trending-coins"].data = lastResp'[1].result
            /\ cache'["trending-coins"].data.status = "success"]_vars
    /\ [][(/\ IsValidCached(cache, "trending-coins", now)
           /\ cache["trending-coins"].data.data = <<>>
           /\ StartStep("trending-coins")) =>
            /\ lastResp' # <<>>
            /\ lastResp'[1].path = "hit"
            /\ lastResp'[1].code = 404
            /\ fetches' = fetches
            /\ pending' = pending
            /\ cache' = cache]_vars

C16_Witness ==
    /\ Responded
    /\ Resp.path = "hit"
    /\ Resp.key = "trending-coins"
    /\ Resp.code = 404
    /\ Resp.result.data = <<>>
    /\ now > cache["trending-coins"].timestamp

\* C17: a response that carries the field count is a response for the list
\* resource whose data is a list, and count is the length of that list; no
\* response for btc-dominance, and no response of the administration
\* endpoints, carries count.
C17_CountIsListLength ==
    Responded =>
        IF IsRequestPath(Resp)
        THEN IF Resp.key = "btc-dominance"
             THEN "count" \notin DOMAIN Resp.body
             ELSE "count" \in DOMAIN Resp.body =>
                    /\ "data" \in DOMAIN Resp.body
                    /\ Resp.body.count = Len(Resp.body.data)
        ELSE "count" \notin DOMAIN Resp.body

C17_Witness ==
    /\ Responded
    /\ IsRequestPath(Resp)
    /\ Resp.key = "trending-coins"
    /\ Resp.code = 200
    /\ "count" \in DOMAIN Resp.body
    /\ Resp.body.count = 2
    /\ Len(Resp.body.data) = 2

\* the steps of the chain at which marketCapTextToNum was applied
TextSteps == {i \in 1..(Len(canon) - 1) : canon[i].kind = "text"}

\* the steps of the chain at which marketCapNumToText was applied
NumSteps == {i \in 1..(Len(canon) - 1) : canon[i].kind = "num"}

HasTrillion(text) == Includes(text, W_trillion) \/ Includes(text, <<"T">>)

HasBillion(text) == Includes(text, W_billion) \/ Includes(text, <<"B">>)

HasMillion(text) == Includes(text, W_million) \/ Includes(text, <<"M">>)

Pow10(n) == Number(FALSE, <<1>> \o Zeros(n), <<>>)

\* C18 as claimed: marketCapTextToNum scales the parsed number by the first
\* indicator found in the order trillion, billion, million: a text with a
\* billion indicator and a million indicator and no trillion indicator is
\* scaled by 10^9, a text with no indicator by 1.
C18_ScaleOrder ==
    \A i \in TextSteps :
        LET text == canon[i].text
            parsed == ParseFloat(StripNonNumeric(text))
            scale == IF HasTrillion(text) THEN 12
                     ELSE IF HasBillion(text) THEN 9
                     ELSE IF HasMillion(text) THEN 6
                     ELSE 0
        IN  canon[i + 1].num = Times10(parsed, scale)

LowerLetters == <<"b", "i", "l", "m", "n", "o", "r", "t">>

UpperLetters == <<"B", "I", "L", "M", "N", "O", "R", "T">>

\* the text with each letter of `from` replaced by the letter of `to` at the
\* same place
Recase(text, from, to) ==
    [i \in 1..Len(text) |->
        IF \E j \in 1..Len(from) : from[j] = text[i]
        THEN to[CHOOSE j \in 1..Len(from) : from[j] = text[i]]
        ELSE text[i]]

ToUpperCase(text) == Recase(text, LowerLetters, UpperLetters)

ToLowerCase(text) == Recase(text, UpperLetters, LowerLetters)

\* C19 as claimed: scale detection is case-insensitive: the number
\* marketCapTextToNum gives for a text is the number it gives for the same
\* text with its scale indicator in capitals, and in small letters.
C19_CaseInsensitive ==
    \A i \in TextSteps :
        LET text == canon[i].text
        IN  /\ canon[i + 1].num = marketCapTextToNum(ToUpperCase(text))
            /\ canon[i + 1].num = marketCapTextToNum(ToLowerCase(text))

StartsWith(text, prefix) ==
    Len(prefix) <= Len(text) /\ SubSeq(text, 1, Len(prefix)) = prefix

EndsWith(text, suffix) ==
    /\ Len(suffix) <= Len(text)
    /\ SubSeq(text, Len(text) - Len(suffix) + 1, Len(text)) = suffix

HasScaleWord(text) ==
    Includes(text, W_trillion) \/ Includes(text, W_billion) \/ Includes(text, W_million)

\* text is "$", a mantissa of one or more digits, a point and exactly two
\* digits, a space, and `word`
IsScaled(text, word) ==
    LET mantissa == SubSeq(text, 2, Len(text) - Len(word) - 1)
        n == Len(mantissa)
    IN  /\ StartsWith(text, <<"$">>)
        /\ EndsWith(text, <<" ">> \o word)
        /\ n >= 4
        /\ mantissa[n - 2] = "."
        /\ \A j \in 1..n : j # n - 2 => IsDigit(mantissa[j])

\* the part of C20 on the tiers and the two-decimal mantissa
C20_Tiers ==
    \A i \in NumSteps :
        LET value == canon[i].num
            text == canon[i + 1].text
        IN  /\ AtLeastPow10(value, 12) => IsScaled(text, W_trillion)
            /\ (AtLeastPow10(value, 9) /\ ~AtLeastPow10(value, 12))
                  => IsScaled(text, W_billion)
            /\ (AtLeastPow10(value, 6) /\ ~AtLeastPow10(value, 9))
                  => IsScaled(text, W_million)
            /\ ~AtLeastPow10(value, 6) => ~HasScaleWord(text)
            /\ value = Pow10(9) => EndsWith(text, W_billion)
            /\ value = Number(FALSE, [j \in 1..9 |-> 9], <<>>)
                  => EndsWith(text, W_million)
            /\ value = Number(FALSE, <<2, 3>> \o Zeros(8), <<>>)
                  => text = <<"$", "2", ".", "3", "0", " ">> \o W_billion

\* C20 as claimed: tiers with inclusive lower bounds, a two-decimal mantissa,
\* and the text for 10^9 begins with "1.00".
C20_Original ==
    /\ C20_Tiers
    /\ \A i \in NumSteps :
          canon[i].num = Pow10(9) => StartsWith(canon[i + 1].text, <<"1", ".", "0", "0">>)

\* C20 amended: marketCapNumToText gives "$", the value over 10^12, 10^9 or
\* 10^6 with exactly two decimals, a space and 'trillion', 'billion' or
\* 'million' for a value at or above that power of ten and below the next
\* tier, and a text with no scale word below 10^6; the text for 10^9 is
\* "$1.00 billion" (it begins with "$1.00"), the text for 10^9 - 1 ends with
\* 'million', and 2300000000 gives "$2.30 billion".
C20_TierBounds ==
    /\ C20_Tiers
    /\ \A i \in NumSteps :
          canon[i].num = Pow10(9) =>
            /\ StartsWith(canon[i + 1].text, <<"$", "1", ".", "0", "0">>)
            /\ canon[i + 1].text = <<"$", "1", ".", "0", "0", " ">> \o W_billion

C20_Witness ==
    /\ Len(canon) >= 2
    /\ canon[1] = NumValue(Pow10(9))
    /\ canon[2] = TextValue(<<"$", "1", ".", "0", "0", " ">> \o W_billion)

\* Comparison and difference of the magnitudes of two decimals, on their
\* digits aligned at the point.
AlignedDigits(x, intLen, fracLen) ==
    Zeros(intLen - Len(x.int)) \o x.int \o x.frac \o Zeros(fracLen - Len(x.frac))

MaxOf(a, b) == IF a >= b THEN a ELSE b

\* |x| <= |y|
MagLeq(x, y) ==
    LET intLen == MaxOf(Len(x.int), Len(y.int))
        fracLen == MaxOf(Len(x.frac), Len(y.frac))
        a == AlignedDigits(x, intLen, fracLen)
        b == AlignedDigits(y, intLen, fracLen)
    IN  \/ a = b
        \/ \E i \in 1..Len(a) : a[i] < b[i] /\ \A j \in 1..(i - 1) : a[j] = b[j]

\* a - b - borrow on digit strings of one length, a >= b
RECURSIVE SubDigits(_, _, _)
SubDigits(a, b, borrow) ==
    IF a = <<>> THEN <<>>
    ELSE LET n == Len(a)
             d == a[n] - b[n] - borrow
         IN  SubDigits(SubSeq(a, 1, n - 1), SubSeq(b, 1, n - 1), IF d < 0 THEN 1 ELSE 0)
             \o << IF d < 0 THEN d + 10 ELSE d >>

\* | |x| - |y| |
MagDiff(x, y) ==
    LET intLen == MaxOf(Len(x.int), Len(y.int))
        fracLen == MaxOf(Len(x.frac), Len(y.frac))
        a == AlignedDigits(x, intLen, fracLen)
        b == AlignedDigits(y, intLen, fracLen)
        d == IF MagLeq(y, x) THEN SubDigits(a, b, 0) ELSE SubDigits(b, a, 0)
    IN  Number(FALSE, SubSeq(d, 1, intLen), SubSeq(d, intLen + 1, Len(d)))

\* w is v to within 1% of v
WithinOnePercent(v, w) ==
    /\ ~v.nan
    /\ ~w.nan
    /\ (v.neg = w.neg \/ (v.int = <<>> /\ v.frac = <<>>))
    /\ MagLeq(Times10(MagDiff(v, w), 2), v)

\* the chains number -> text -> number
RoundTrips == {i \in NumSteps : i + 2 <= Len(canon)}

IsMagnitude(v) == ~v.nan /\ ~v.neg

\* C21 as claimed (round-trip law): for every magnitude v >= 0,
\* marketCapTextToNum(marketCapNumToText(v)) is v to within 1% of v.
C21_Original ==
    \A i \in RoundTrips :
        IsMagnitude(canon[i].num) => WithinOnePercent(canon[i].num, canon[i + 2].num)

\* 0.05
FiveHundredths == Number(FALSE, <<>>, <<0, 5>>)

\* C21 amended (round-trip law): for v = 0 and for every magnitude v >= 0.05,
\* whatever its tier, marketCapTextToNum(marketCapNumToText(v)) is v to within
\* 1% of v (the scale word written is the scale read back); a magnitude with
\* at most three decimals below 10^6 comes back exactly.
C21_RoundTrip ==
    \A i \in RoundTrips :
        LET v == canon[i].num
            w == canon[i + 2].num
        IN  /\ (IsMagnitude(v) /\ (v = Number(FALSE, <<>>, <<>>) \/ MagLeq(FiveHundredths, v)))
                  => WithinOnePercent(v, w)
            /\ (IsMagnitude(v) /\ ~AtLeastPow10(v, 6) /\ Len(v.frac) <= 3) => w = v

C21_Witness ==
    /\ Len(canon) = 3
    /\ canon[1] = NumValue(Number(FALSE, [i \in 1..9 |-> 9], <<>>))
    /\ canon[2] = TextValue(<<"$", "1", "0", "0", "0", ".", "0", "0", " ">> \o W_million)
    /\ canon[3] = NumValue(Pow10(9))

HasDigit(text) == \E i \in 1..Len(text) : IsDigit(text[i])

NaNText == <<"$", "N", "a", "N">>

\* C22: marketCapTextToNum returns for every text (a conversion is never
\* left without a result): a number, or NaN; it returns NaN for every text
\* without a digit, whatever scale indicator the text has; and
\* marketCapNumToText returns a text for NaN ("$NaN").
C22_Unparsable ==
    /\ \A i \in 1..Len(canon) :
          IF canon[i].kind = "text"
          THEN marketCapTextToNum(canon[i].text).nan \in BOOLEAN
          ELSE StartsWith(marketCapNumToText(canon[i].num), <<"$">>)
    /\ \A i \in TextSteps :
          /\ canon[i + 1].kind = "num"
          /\ canon[i + 1].num.nan \in BOOLEAN
          /\ ~HasDigit(canon[i].text) => canon[i + 1].num = NaN
    /\ \A i \in NumSteps :
          /\ canon[i + 1].kind = "text"
          /\ canon[i].num = NaN => canon[i + 1].text = NaNText

C22_Witness ==
    /\ Len(canon) = 3
    /\ canon[1] = TextValue(<<"$", "-">> \o W_billion)
    /\ canon[2] = NumValue(NaN)
    /\ canon[3] = TextValue(NaNText)

\* a text that ends in a point and exactly two digits before "%"
TwoDecimals(text) ==
    /\ Len(text) >= 5
    /\ text[Len(text)] = "%"
    /\ IsDigit(text[Len(text) - 1])
    /\ IsDigit(text[Len(text) - 2])
    /\ text[Len(text) - 3] = "."
    /\ \A i \in 1..(Len(text) - 4) : text[i] # "."

ChangeRecords == {i \in 1..Len(canon) : canon[i].kind = "change"}

\* C23: in every record a producer builds, change24hFormatted starts with
\* '+' exactly when change24h is non-negative, with '-' exactly when it is
\* negative, and has exactly two decimals.
C23_SignAgrees ==
    \A i \in ChangeRecords :
        LET n == canon[i].change24h
            f == canon[i].change24hFormatted
        IN  /\ (f[1] = "+") <=> NonNegative(n)
            /\ (f[1] = "-") <=> (~n.nan /\ ~NonNegative(n))
            /\ TwoDecimals(f)

\* C24: every envelope stored in the cache, and every success response
\* built from it, carries a generation timestamp that is not later than the
\* entry's storage time.
C24_GenerationTimestamp ==
    /\ \A k \in DOMAIN cache :
          /\ "timestamp" \in DOMAIN cache[k].data
          /\ cache[k].data.timestamp <= cache[k].timestamp
    /\ \A i \in 1..Len(lastResp) :
          (lastResp[i].path \in {"hit", "fresh"} /\ lastResp[i].code = 200)
              => /\ "timestamp" \in DOMAIN lastResp[i].body
                 /\ lastResp[i].key \in DOMAIN cache
                 /\ lastResp[i].body.timestamp <= cache[lastResp[i].key].timestamp

\* C25: a request that observes a miss invokes the producer exactly once,
\* whether or not calls for the same key are already suspended; a request
\* that observes a valid entry invokes none; a producer that settles, with
\* a result or an error, is not invoked again.
C25_NoSingleFlight ==
    [][\A k \in Keys :
          /\ (StartStep(k) /\ ~IsValidCached(cache, k, now))
                => /\ fetches' = fetches + 1
                   /\ pending' = [pending EXCEPT ![k] = @ + 1]
          /\ (StartStep(k) /\ IsValidCached(cache, k, now))
                => /\ fetches' = fetches
                   /\ pending' = pending
          /\ \A page \in Pages(k) :
                SettleStep(k, page)
                   => /\ fetches' = fetches
                      /\ pending' = [pending EXCEPT ![k] = @ - 1]]_vars

C25_Witness ==
    /\ "trending-coins" \notin DOMAIN cache
    /\ pending["trending-coins"] = 2
    /\ fetches = 2

\* an entry made of one whole envelope and its storage time
CompleteEntry(entry) ==
    /\ DOMAIN entry = {"data", "timestamp"}
    /\ DOMAIN entry.data = {"status", "timestamp", "data"}
    /\ entry.data.status = "success"

\* C26: the entry of a key is always the complete envelope of the refresh
\* of that key whose producer completed last, whichever request started
\* first; a successful refresh overwrites the entry with its own envelope;
\* the storage time of a key's entry never decreases across overwrites.
C26_LastWriterWins ==
    /\ [](\A k \in DOMAIN cache :
              /\ CompleteEntry(cache[k])
              /\ k \in DOMAIN good
              /\ cache[k].data = good[k])
    /\ [][\A k \in Keys :
              /\ \A page \in Pages(k) :
                    (SettleStep(k, page) /\ lastResp'[1].path = "fresh")
                       => cache'[k] = [data |-> lastResp'[1].result, timestamp |-> now]
              /\ (k \in DOMAIN cache /\ k \in DOMAIN cache')
                    => cache'[k].timestamp >= cache[k].timestamp]_vars

C26_Witness ==
    /\ Responded
    /\ Resp.path = "fresh"
    /\ Resp.hadEntry
    /\ Resp.first
    /\ cache[Resp.key].data = Resp.result
    /\ pending[Resp.key] = 0

\* C27: when every producer call settles, no call stays suspended (the
\* first request issued for a key is one of the suspended calls until it is
\* answered); a suspended call ends only in a step that sends exactly one
\* response for its key, never because time passes.
C27_EventuallyAnswered ==
    /\ \A k \in Keys : (pending[k] > 0) ~> (pending[k] = 0)
    /\ [](\A k \in Keys : (first[k] = "pending") => (pending[k] > 0))
    /\ [][\A k \in Keys :
              (pending'[k] < pending[k] \/ (first[k] = "pending" /\ first'[k] # "pending"))
                 => /\ now' = now
                    /\ Len(lastResp') = 1
                    /\ lastResp'[1].path \in {"fresh", "failed"}
                    /\ ResponseKey(lastResp'[1]) = k
                    /\ pending'[k] = pending[k] - 1]_vars

\* a call for one key is still suspended a whole window after it started,
\* while a request for the other key has been answered
C27_Witness ==
    /\ first["trending-coins"] = "pending"
    /\ pending["trending-coins"] = 1
    /\ now >= CACHE_DURATION
    /\ Responded
    /\ Resp.path = "fresh"
    /\ Resp.key = "btc-dominance"

\* when the sweep last ran (the start of the server before the first run)
LastSweepTime == nextSweep - SWEEP_INTERVAL

Age(k) == now - cache[k].timestamp

\* a stale fallback was just served
ServedStale ==
    /\ Responded
    /\ Resp.path = "failed"
    /\ Resp.code = 200

\* C28 as stated: no entry is in the cache at an age over 20 minutes, and
\* no stale fallback is served from an entry stored over 20 minutes earlier.
C28_Original ==
    /\ \A k \in DOMAIN cache : Age(k) <= 2 * CACHE_DURATION + SWEEP_INTERVAL
    /\ ServedStale => Age(Resp.key) <= 2 * CACHE_DURATION + SWEEP_INTERVAL

\* C28: no entry is in the cache at an age over two windows plus the time
\* since the sweep last ran, and no stale fallback is served from an older
\* entry; right after a sweep no entry is over two windows old.
C28_SweepBound ==
    /\ \A k \in DOMAIN cache : Age(k) <= 2 * CACHE_DURATION + (now - LastSweepTime)
    /\ ServedStale => Age(Resp.key) <= 2 * CACHE_DURATION + (now - LastSweepTime)
    /\ lastSweep # <<>> => \A k \in DOMAIN cache : Age(k) <= 2 * CACHE_DURATION

\* a stale fallback from an entry between 10 and 20 minutes old
C28_Witness ==
    /\ ServedStale
    /\ Age(Resp.key) > 2 * CACHE_DURATION
    /\ Age(Resp.key) < 2 * CACHE_DURATION + SWEEP_INTERVAL

\* C29: every row of GET /cache-status has expired = TRUE exactly when a
\* getCachedData call for the row's key at the same instant would find no
\* valid entry (age in ms >= CACHE_DURATION), and remainingSeconds = 0
\* exactly when expired is TRUE.
C29_InspectAgrees ==
    (Responded /\ Resp.path = "inspect")
        => \A i \in 1..Len(Resp.body.cacheEntries) :
              LET row == Resp.body.cacheEntries[i]
              IN  /\ row.expired <=> ~IsValidCached(cache, row.key, now)
                  /\ (row.remainingSeconds = 0) <=> row.expired

\* the envelope a response body carries is e
Carries(body, e) ==
    /\ {"status", "timestamp", "data"} \subseteq DOMAIN body
    /\ body.status = e.status
    /\ body.timestamp = e.timestamp
    /\ body.data = e.data

\* C30: a 200 response to a request that has no stale-fallback marker
\* carries either the envelope of an entry stored less than one window
\* before (a cache hit) or the envelope built from the producer result of
\* the same request at that moment (a refresh); a 200 response from the
\* failure path always has the marker.
C30_FreshOrMarked ==
    (Responded /\ IsRequestPath(Resp) /\ Resp.code = 200)
        => IF HasMarker(Resp.body)
           THEN Resp.path = "failed"
           ELSE \/ /\ Resp.path = "hit"
                   /\ ResponseKey(Resp) \in DOMAIN cache
                   /\ now - cache[Resp.key].timestamp < CACHE_DURATION
                   /\ Carries(Resp.body, cache[Resp.key].data)
                \/ /\ Resp.path = "fresh"
                   /\ Resp.body.timestamp = now
                   /\ Carries(Resp.body, Resp.result)
                   /\ cache[Resp.key] = [data |-> Resp.result, timestamp |-> now]

\* an entry one window old was there, and the request got a fresh envelope
C30_Witness ==
    /\ Responded
    /\ Resp.path = "fresh"
    /\ Resp.code = 200
    /\ Resp.hadEntry
    /\ ~HasMarker(Resp.body)
    /\ now >= CACHE_DURATION
    /\ good[Resp.key].timestamp = now

\* the sweep timer just fired
SweepStep == lastSweep' # <<>> /\ CleanupCache

\* C31: a flush or a sweep leaves the suspended calls suspended; when the
\* producer of a call that started over an entry succeeds after the entry
\* was removed, the call stores its envelope (the key is present again
\* though no request started since); when it fails after the entry was
\* removed, the call is answered with the error envelope, and with the
\* stale fallback only while the entry is still there.
C31_RemovalDoesNotCancel ==
    [][/\ (FlushStep \/ SweepStep) => (pending' = pending /\ fetches' = fetches)
       /\ \A k \in Keys : \A page \in Pages(k) :
             SettleStep(k, page)
                => IF Scraper(k, page).ok
                   THEN /\ k \in DOMAIN cache'
                        /\ cache'[k] = [data |-> lastResp'[1].result, timestamp |-> now]
                   ELSE /\ cache' = cache
                        /\ IF k \in DOMAIN cache
                           THEN lastResp'[1].code = 200 /\ HasMarker(lastResp'[1].body)
                           ELSE /\ lastResp'[1].code = 500
                                /\ lastResp'[1].body.status = "error"
                                /\ "data" \notin DOMAIN lastResp'[1].body]_vars

\* the entry was flushed or swept while the call was suspended, and the
\* call has stored the key again
C31_Witness ==
    /\ Responded
    /\ Resp.path = "fresh"
    /\ ~Resp.hadEntry
    /\ ResponseKey(Resp) \in DOMAIN cache
    /\ cache[Resp.key].timestamp = now
    /\ fetches = 2

\* the same call failing: the error envelope
C31_FailedAfterRemoval ==
    /\ Responded
    /\ Resp.path = "failed"
    /\ ~Resp.hadEntry
    /\ Resp.code = 500

\* the step creates, changes or removes the entry of key j
EntryChanged(j) ==
    \/ (j \in DOMAIN cache) # (j \in DOMAIN cache')
    \/ (j \in DOMAIN cache /\ j \in DOMAIN cache' /\ cache'[j] # cache[j])

\* C32: a step of a request for key k (a hit, a miss that suspends, a
\* refresh, a failure with or without the stale fallback) leaves the entry
\* of every other key as it is; a step that changes the entries of several
\* keys is a flush or a sweep.
C32_KeyIsolation ==
    [][/\ \A k \in Keys :
             (StartStep(k) \/ \E page \in Pages(k) : SettleStep(k, page))
                => \A j \in Keys \ {k} : ~EntryChanged(j)
       /\ (Cardinality({j \in Keys : EntryChanged(j)}) > 1)
             => (FlushStep \/ lastSweep' # <<>>)]_vars

\* a refresh of one key while the other key has an older entry
C32_Witness ==
    /\ Responded
    /\ Resp.path = "fresh"
    /\ ResponseKey(Resp) = "trending-coins"
    /\ "btc-dominance" \in DOMAIN cache
    /\ cache["btc-dominance"].timestamp < cache["trending-coins"].timestamp

\* C33: a list envelope served by the stale fallback is presented as the
\* try block presents it: not-found for an empty list, and count equal to
\* the length of the list otherwise.
C33_FallbackPresentation ==
    (/\ Responded
     /\ Resp.path = "failed"
     /\ ResponseKey(Resp) = "trending-coins"
     /\ Resp.hadEntry)
        => LET envelope == cache[Resp.key].data
           IN  IF Len(envelope.data) = 0
               THEN Resp.code = 404
               ELSE /\ Resp.code = 200
                    /\ "count" \in DOMAIN Resp.body
                    /\ Resp.body.count = Len(envelope.data)

\* C34: when the producer of btc-dominance reads a page without a dominance
\* row the request is answered 404 (not as a producer failure), and when it
\* reads a page with a numeric dominance value, 0 included, the request is
\* answered 200 with that value.
C34_DominancePresentation ==
    [][\A page \in DominancePages :
          (page.ok /\ SettleStep("btc-dominance", page))
             => IF page.row = <<>>
                THEN /\ lastResp'[1].path = "fresh"
                     /\ lastResp'[1].code = 404
                ELSE /\ lastResp'[1].path = "fresh"
                     /\ lastResp'[1].code = 200
                     /\ lastResp'[1].body.data.btcDominance = page.row[1]]_vars
====
